---- MODULE Spec2Model ----
\* gpzu-web: the client-side wizards (RefusalFlow, TuFlow, GpFlow, KaitenFlow,
\* MidMifFlow, WorkspaceFlow), the refusal journal editor (both RefusalsTable
\* variants), the outcome tables of the PostgreSQL schema and the HTTP
\* transports (api instance with interceptors, raw axios, fetch).
\*
\* Four specifications share one Init; each Next moves one subsystem and
\* leaves the others alone:
\*   SpecWizard   one mounted wizard component and its in-flight requests
\*   SpecJournal  the refusal journal detail/edit modal
\*   SpecDb       rows of gp / refusals under the schema's unique indexes
\*   SpecAuth     stored credential, location and 401 handling per transport
EXTENDS Integers, Sequences, FiniteSets, Bags, TLC

VARIABLES
    wizard,     \* which wizard component is mounted
    st,         \* the component's useState cells (record, source names)
    inflight,   \* remote calls awaiting their response (with the closure that awaits)
    overlaps,   \* how many calls were sent while another one was outstanding
    last,       \* label of the last handler / continuation that ran
    shown,      \* what the last answer carried and the message shown for it
    jr,         \* RefusalsTable component state (record, source names)
    puts,       \* PUT /api/gp/refusals/{id} requests awaiting their response
    rows,       \* the refusals the server lists: row id -> application_id
    gp,         \* rows of public.gp
    refusals,   \* rows of public.refusals
    tu_requests,  \* rows of public.tu_requests
    applications, \* ids of the rows of public.applications
    seq,        \* gp_id_seq, refusals_id_seq and tu_requests_id_seq
    reply,      \* the answer to the last statement
    auth,       \* localStorage 'auth' (TRUE = a credential is stored)
    location,   \* window.location: "/app" or "/login"
    calls,      \* HTTP calls in flight at transport level
    got,        \* the last HTTP response delivered to the page
    isAuthenticated, \* ProtectedRoute's state: "null" while checking, "true", "false"
    lst,        \* the journal table mounted: pagination, filters.year, data
    gets,       \* list and export GET requests awaiting their response
    committed,  \* the records the server holds for the journal mounted
    ed          \* the refusal editor's date fields and the PUT body it built

wizVars == <<wizard, st, inflight, overlaps, last, shown>>
jrnVars == <<jr, puts, rows>>
dbVars == <<gp, refusals, tu_requests, applications, seq, reply>>
authVars == <<auth, location, calls, got, isAuthenticated>>
listVars == <<lst, gets, committed>>
vars == <<wizVars, jrnVars, dbVars, authVars, listVars, ed>>

\* ---------------------------------------------------------------- bounds
MaxOverlap == 2       \* submissions made while a call of the wizard is outstanding
MaxParcel == 1        \* distinct EGRN extracts the parser may return
MaxFile == 1          \* distinct file names the operator may drop
MaxRow == 2           \* rows ever inserted into the outcome tables
MaxRecord == 1        \* refusals the journal lists
MaxOutNumber == 2     \* out_number values
MaxYear == 1          \* out_year values
MaxPuts == 1          \* journal PUT requests outstanding
MaxSave == 2          \* clicks of the download button counted per document
MaxPage == 2          \* pages the operator may ask a journal for
MaxCommitted == 2     \* records committed while a journal is shown
MaxGets == 2          \* journal GET requests outstanding
MaxCalls == 2         \* HTTP calls outstanding at transport level

\* ---------------------------------------------------------------- data
NULL == 0

\* application.status values, as the applications journal labels them
Statuses == <<"new", "in_progress", "gp_issued", "refused">>

\* the applications known to the backend: one per status
Apps == 1..Len(Statuses)
AppStatus(a) == Statuses[a]

Parcels == 1..MaxParcel

REFUSAL_REASONS == <<"NO_RIGHTS", "NO_BORDERS", "NOT_IN_CITY", "OBJECT_NOT_EXISTS", "HAS_ACTIVE_GP">>
Reasons == 1..Len(REFUSAL_REASONS)

\* extensions of the files the operator may drop
Exts == {"docx", "xml", "zip"}
NoFile == [name |-> NULL, ext |-> "none"]
Files == [name : 1..MaxFile, ext : Exts]

Wizards == {"refusal", "tu", "gp", "kaiten", "midmif", "workspace"}

EmptyManual == [app_number |-> NULL, applicant |-> NULL]
NoFinal == [cadnum |-> NULL, app_number |-> NULL, applicant |-> NULL]

\* useState initial values of all wizard components (a component only uses
\* its own cells; the others keep their initial value)
InitState ==
    [ currentStep |-> 0,
      loading |-> FALSE,
      applicationData |-> NULL,      \* Refusal/Tu/Gp
      egrnData |-> NULL,             \* Refusal/Tu/Gp
      selectedReason |-> NULL,       \* Refusal
      generatedFile |-> NULL,        \* Refusal/Gp
      inputMode |-> "null",          \* Tu
      manualData |-> EmptyManual,    \* Tu
      finalData |-> NoFinal,         \* Tu
      downloadReady |-> FALSE,       \* Tu/MidMif
      applicationMode |-> "file",    \* Gp
      spatialData |-> "null",        \* Gp
      parsedData |-> NULL,           \* Kaiten
      cardResult |-> NULL,           \* Kaiten
      uploadedFile |-> NoFile,       \* MidMif
      previewData |-> NULL,          \* MidMif
      egrnFile |-> NoFile,           \* Workspace
      generatedFileName |-> NULL,    \* Workspace
      saves |-> 0 ]                  \* link.click() calls for the document held

\* responses of the backend: ok with a payload, or a failure, which is either
\* a rejection with a detail message or no response at all
Resp(D) ==
    [ok : {TRUE}, data : D, detail : {FALSE}] \cup [ok : {FALSE}, data : {NULL}, detail : BOOLEAN]

\* ---------------------------------------------------------------- requests
\* what a remote call carries: the request body, or the values of the render
\* closure its continuation reads (fields a call does not use stay empty)
NoBody ==
    [ application |-> NULL, egrn |-> NULL, reason |-> NULL, spatial |-> "null",
      mode |-> "null", manual |-> EmptyManual, final |-> NoFinal, file |-> NoFile ]

\* a remote call sent by handler h; confirmed tells whether a conflict modal
\* was confirmed before sending (no wizard has one)
Request(h, body) ==
    [handler |-> h, body |-> body, confirmed |-> FALSE]

\* inflight is a bag: two calls of one handler with equal bodies are two calls
Pending == BagToSet(inflight)
PendingOf(h) == {r \in Pending : r.handler = h}
NumPending(h) == BagCardinality([r \in PendingOf(h) |-> inflight[r]])

\* no handler looks at loading before sending, so a call may go out while
\* another is outstanding; the model bounds how often that happens
Send(h, body) ==
    /\ inflight # EmptyBag => overlaps < MaxOverlap
    /\ overlaps' = IF inflight # EmptyBag THEN overlaps + 1 ELSE overlaps
    /\ inflight' = inflight (+) SetToBag({Request(h, body)})

Receive(r) == inflight (-) SetToBag({r})

Event(h, ev) == [h |-> h, ev |-> ev]
Outcome(resp) == IF resp.ok THEN "ok" ELSE "fail"

OthersUnchanged == UNCHANGED <<wizard, jrnVars, dbVars, authVars, listVars, ed>>

\* the text of message.error in the catch of handler h: detail is
\* error.response?.data?.detail being present
Catch(h, detail) ==
    IF h \in {"Gp.performSpatialAnalysis", "Gp.handleDownload"} THEN "generic"
    ELSE IF h = "Workspace.handleGenerate" THEN IF detail THEN "detail" ELSE "error.message"
    ELSE IF detail THEN "detail" ELSE "generic"

\* the message a continuation shows for its answer
Message(h, resp) ==
    IF ~resp.ok THEN Catch(h, resp.detail)
    ELSE IF h = "Gp.handleGenerate" /\ resp.data = NULL THEN Catch(h, FALSE)
    ELSE "success"

NoMessage == [got |-> "none", text |-> "none"]

Shown(h, resp) ==
    [ got |-> IF resp.ok THEN "ok" ELSE IF resp.detail THEN "detail" ELSE "no response",
      text |-> Message(h, resp) ]

\* the response of a call of handler h arrives and its continuation Then runs
\* (the code after the await, with catch and finally)
Await(h, D, Then(_, _, _)) ==
    \E r \in PendingOf(h) :
        /\ \E resp \in Resp(D) :
            /\ st' = Then(st, r, resp)
            /\ last' = Event(h, Outcome(resp))
            /\ shown' = Shown(h, resp)
        /\ inflight' = Receive(r)
        /\ UNCHANGED overlaps
        /\ OthersUnchanged

\* a handler that sends a remote call after setLoading(true)
Call(w, h, body) ==
    /\ wizard = w
    /\ Send(h, body)
    /\ st' = [st EXCEPT !.loading = TRUE]
    /\ last' = Event(h, "call")
    /\ shown' = NoMessage
    /\ OthersUnchanged

\* a handler that only sets state
Local(w, h, s) ==
    /\ wizard = w
    /\ st' = s
    /\ last' = Event(h, "local")
    /\ shown' = NoMessage
    /\ UNCHANGED <<inflight, overlaps>>
    /\ OthersUnchanged

\* the accept attribute of the Dragger that calls each upload handler
Accept(h) ==
    IF h \in {"Refusal.handleApplicationUpload", "Tu.handleApplicationUpload",
              "Gp.handleApplicationFile", "Kaiten.handleFileUpload"} THEN {"docx"}
    ELSE IF h \in {"Tu.handleEgrnUpload", "MidMif.handleFileUpload"} THEN {"xml", "zip"}
    ELSE IF h \in {"Refusal.handleEgrnUpload", "Gp.handleEgrnFile",
                   "Workspace.handleEgrnUpload"} THEN {"xml"}
    ELSE {}

\* ================================================================ RefusalFlow
Refusal_handleApplicationUpload(file) ==
    /\ st.currentStep = 0
    /\ Call("refusal", "Refusal.handleApplicationUpload", [NoBody EXCEPT !.file = file])

Refusal_handleApplicationUpload_then(s, r, resp) ==
    IF resp.ok
    THEN [s EXCEPT !.applicationData = resp.data, !.currentStep = 1, !.loading = FALSE]
    ELSE [s EXCEPT !.loading = FALSE]

Refusal_handleApplicationUpload_done ==
    Await("Refusal.handleApplicationUpload", Apps, Refusal_handleApplicationUpload_then)

Refusal_handleEgrnUpload(file) ==
    /\ st.currentStep = 1
    /\ Call("refusal", "Refusal.handleEgrnUpload", [NoBody EXCEPT !.file = file])

\* variant of the EGRN continuation that moves on although the parse failed
Refusal_handleEgrnUpload_then_advancesOnFailure(s, r, resp) ==
    IF resp.ok
    THEN [s EXCEPT !.egrnData = resp.data, !.currentStep = 2, !.loading = FALSE]
    ELSE [s EXCEPT !.currentStep = 2, !.loading = FALSE]

Refusal_handleEgrnUpload_then(s, r, resp) ==
    IF resp.ok
    THEN [s EXCEPT !.egrnData = resp.data, !.currentStep = 2, !.loading = FALSE]
    ELSE [s EXCEPT !.loading = FALSE]

Refusal_handleEgrnUpload_done ==
    Await("Refusal.handleEgrnUpload", Parcels, Refusal_handleEgrnUpload_then)

Refusal_handleReasonSelect(code) ==
    /\ st.currentStep = 2
    /\ Local("refusal", "Refusal.handleReasonSelect", [st EXCEPT !.selectedReason = code])

\* variant of the handler below without the check of selectedReason
Refusal_handleConfirmReason_unguarded ==
    /\ st.currentStep = 2
    /\ Local("refusal", "Refusal.handleConfirmReason", [st EXCEPT !.currentStep = 3])

Refusal_handleConfirmReason ==
    /\ st.currentStep = 2
    /\ Local("refusal", "Refusal.handleConfirmReason",
             IF st.selectedReason = NULL THEN st ELSE [st EXCEPT !.currentStep = 3])

\* the guard of handleGenerate: true when the handler returns early
Refusal_handleGenerate_rejects(s) ==
    s.applicationData = NULL \/ s.egrnData = NULL \/ s.selectedReason = NULL

Refusal_handleGenerate ==
    /\ st.currentStep = 3 /\ st.selectedReason # NULL
    /\ IF Refusal_handleGenerate_rejects(st)
       THEN Local("refusal", "Refusal.handleGenerate", st)
       ELSE Call("refusal", "Refusal.handleGenerate",
                 [NoBody EXCEPT !.application = st.applicationData, !.egrn = st.egrnData,
                                !.reason = st.selectedReason])

Refusal_handleGenerate_then(s, r, resp) ==
    IF resp.ok
    THEN [s EXCEPT !.generatedFile = resp.data, !.currentStep = 4, !.loading = FALSE,
                   !.saves = 1]
    ELSE [s EXCEPT !.loading = FALSE]

Refusal_handleGenerate_done ==
    Await("Refusal.handleGenerate", 1..MaxFile, Refusal_handleGenerate_then)

Refusal_handleReset_state(s) ==
    [s EXCEPT !.currentStep = 0, !.applicationData = NULL, !.egrnData = NULL,
              !.selectedReason = NULL, !.generatedFile = NULL, !.saves = 0]

Refusal_handleReset ==
    /\ st.currentStep = 4 /\ st.generatedFile # NULL
    /\ Local("refusal", "Refusal.handleReset", Refusal_handleReset_state(st))

RefusalNext ==
    \/ \E f \in Files : Refusal_handleApplicationUpload(f)
    \/ Refusal_handleApplicationUpload_done
    \/ \E f \in Files : Refusal_handleEgrnUpload(f)
    \/ Refusal_handleEgrnUpload_done
    \/ \E c \in Reasons : Refusal_handleReasonSelect(c)
    \/ Refusal_handleConfirmReason
    \/ Refusal_handleGenerate
    \/ Refusal_handleGenerate_done
    \/ Refusal_handleReset

\* ================================================================ TuFlow
Tu_handleModeSelect(mode) ==
    /\ st.currentStep = 0
    /\ Local("tu", "Tu.handleModeSelect", [st EXCEPT !.inputMode = mode, !.currentStep = 1])

Tu_handleApplicationUpload(file) ==
    /\ st.currentStep = 1 /\ st.inputMode = "auto"
    /\ Call("tu", "Tu.handleApplicationUpload", [NoBody EXCEPT !.file = file])

Tu_handleApplicationUpload_then(s, r, resp) ==
    IF resp.ok
    THEN [s EXCEPT !.applicationData = resp.data, !.currentStep = 2, !.loading = FALSE]
    ELSE [s EXCEPT !.loading = FALSE]

Tu_handleApplicationUpload_done ==
    Await("Tu.handleApplicationUpload", Apps, Tu_handleApplicationUpload_then)

Tu_handleManualSubmit(values) ==
    /\ st.currentStep = 1 /\ st.inputMode = "manual"
    /\ Local("tu", "Tu.handleManualSubmit", [st EXCEPT !.manualData = values, !.currentStep = 2])

\* variant of combined in which the application's value wins the shared field
Tu_combined_applicationWins(cap, egrn) ==
    [ cadnum |-> IF cap.mode = "auto" THEN cap.application ELSE cap.manual.app_number,
      app_number |-> IF cap.mode = "auto" THEN cap.application
                     ELSE cap.manual.app_number,
      applicant |-> IF cap.mode = "auto" THEN cap.application
                    ELSE cap.manual.applicant ]

\* combined: EGRN fields plus the application fields of the mode the awaiting
\* closure was rendered with
Tu_combined(cap, egrn) ==
    [ cadnum |-> egrn,
      app_number |-> IF cap.mode = "auto" THEN cap.application
                     ELSE cap.manual.app_number,
      applicant |-> IF cap.mode = "auto" THEN cap.application
                    ELSE cap.manual.applicant ]

Tu_handleEgrnUpload(file) ==
    /\ st.currentStep = 2
    /\ Call("tu", "Tu.handleEgrnUpload",
            [NoBody EXCEPT !.file = file, !.mode = st.inputMode,
                           !.application = st.applicationData, !.manual = st.manualData])

Tu_handleEgrnUpload_then(s, r, resp) ==
    IF resp.ok
    THEN [s EXCEPT !.egrnData = resp.data, !.finalData = Tu_combined(r.body, resp.data),
                   !.currentStep = 3, !.loading = FALSE]
    ELSE [s EXCEPT !.loading = FALSE]

Tu_handleEgrnUpload_done ==
    Await("Tu.handleEgrnUpload", Parcels, Tu_handleEgrnUpload_then)

Tu_handleGenerate ==
    /\ st.currentStep = 3 /\ st.finalData # NoFinal
    /\ Call("tu", "Tu.handleGenerate", [NoBody EXCEPT !.final = st.finalData])

Tu_handleGenerate_then(s, r, resp) ==
    IF resp.ok
    THEN [s EXCEPT !.downloadReady = TRUE, !.currentStep = 4, !.loading = FALSE,
                   !.saves = 1]
    ELSE [s EXCEPT !.loading = FALSE]

Tu_handleGenerate_done ==
    Await("Tu.handleGenerate", 1..MaxFile, Tu_handleGenerate_then)

\* variant of the reset that forgets to clear finalData
Tu_handleReset_state_keepsFinalData(s) ==
    [s EXCEPT !.currentStep = 0, !.inputMode = "null", !.applicationData = NULL,
              !.manualData = EmptyManual, !.egrnData = NULL, !.downloadReady = FALSE,
              !.saves = 0]

Tu_handleReset_state(s) ==
    [s EXCEPT !.currentStep = 0, !.inputMode = "null", !.applicationData = NULL,
              !.egrnData = NULL, !.manualData = EmptyManual, !.finalData = NoFinal,
              !.downloadReady = FALSE, !.saves = 0]

Tu_handleReset ==
    /\ st.currentStep = 4 /\ st.downloadReady
    /\ Local("tu", "Tu.handleReset", Tu_handleReset_state(st))

\* what the operator may type into the manual form
ManualValues == {[app_number |-> a, applicant |-> a] : a \in Apps}

TuNext ==
    \/ \E m \in {"auto", "manual"} : Tu_handleModeSelect(m)
    \/ \E f \in Files : Tu_handleApplicationUpload(f)
    \/ Tu_handleApplicationUpload_done
    \/ \E v \in ManualValues : Tu_handleManualSubmit(v)
    \/ \E f \in Files : Tu_handleEgrnUpload(f)
    \/ Tu_handleEgrnUpload_done
    \/ Tu_handleGenerate
    \/ Tu_handleGenerate_done
    \/ Tu_handleReset


\* ================================================================ GpFlow
Gp_setApplicationMode(mode) ==
    /\ st.currentStep = 0
    /\ Local("gp", "Gp.setApplicationMode", [st EXCEPT !.applicationMode = mode])

Gp_handleApplicationFile(file) ==
    /\ st.currentStep = 0 /\ st.applicationMode = "file"
    /\ Call("gp", "Gp.handleApplicationFile", [NoBody EXCEPT !.file = file])

Gp_handleApplicationFile_then(s, r, resp) ==
    IF resp.ok
    THEN [s EXCEPT !.applicationData = resp.data, !.currentStep = 1, !.loading = FALSE]
    ELSE [s EXCEPT !.loading = FALSE]

Gp_handleApplicationFile_done ==
    Await("Gp.handleApplicationFile", Apps, Gp_handleApplicationFile_then)

Gp_handleManualApplication(values) ==
    /\ st.currentStep = 0 /\ st.applicationMode = "manual"
    /\ Local("gp", "Gp.handleManualApplication",
             [st EXCEPT !.applicationData = values.app_number, !.currentStep = 1])

Gp_handleEgrnFile(file) ==
    /\ st.currentStep = 1
    /\ Call("gp", "Gp.handleEgrnFile", [NoBody EXCEPT !.file = file])

\* variant of the continuation below whose catch forgets setLoading(false)
Gp_handleEgrnFile_then_keepsLoading(s, r, resp) ==
    IF resp.ok
    THEN [s EXCEPT !.egrnData = resp.data]
    ELSE s

\* after the EGRN response: on success egrnData is set and the spatial
\* analysis call goes out from the same closure, loading stays set; on
\* failure the catch clears loading
Gp_handleEgrnFile_then(s, r, resp) ==
    IF resp.ok
    THEN [s EXCEPT !.egrnData = resp.data]
    ELSE [s EXCEPT !.loading = FALSE]

\* variant of the continuation below that sends the parse again when it failed
Gp_handleEgrnFile_done_retries ==
    \E r \in PendingOf("Gp.handleEgrnFile") :
        /\ \E resp \in Resp(Parcels) :
            /\ st' = Gp_handleEgrnFile_then(st, r, resp)
            /\ last' = Event("Gp.handleEgrnFile", Outcome(resp))
            /\ shown' = Shown("Gp.handleEgrnFile", resp)
            /\ inflight' = Receive(r) (+)
                 (IF resp.ok
                  THEN SetToBag({Request("Gp.performSpatialAnalysis",
                                         [NoBody EXCEPT !.egrn = resp.data])})
                  ELSE SetToBag({r}))
        /\ UNCHANGED overlaps
        /\ OthersUnchanged

Gp_handleEgrnFile_done ==
    \E r \in PendingOf("Gp.handleEgrnFile") :
        /\ \E resp \in Resp(Parcels) :
            /\ st' = Gp_handleEgrnFile_then(st, r, resp)
            /\ last' = Event("Gp.handleEgrnFile", Outcome(resp))
            /\ shown' = Shown("Gp.handleEgrnFile", resp)
            /\ inflight' = Receive(r) (+)
                 (IF resp.ok
                  THEN SetToBag({Request("Gp.performSpatialAnalysis",
                                         [NoBody EXCEPT !.egrn = resp.data])})
                  ELSE EmptyBag)
        /\ UNCHANGED overlaps
        /\ OthersUnchanged

\* performSpatialAnalysis: the catch branch stores empty spatial data and
\* advances as well
Gp_performSpatialAnalysis_then(s, r, resp) ==
    IF resp.ok
    THEN [s EXCEPT !.spatialData = "analysed", !.currentStep = 2, !.loading = FALSE]
    ELSE [s EXCEPT !.spatialData = "empty", !.currentStep = 2, !.loading = FALSE]

Gp_performSpatialAnalysis_done ==
    Await("Gp.performSpatialAnalysis", {1}, Gp_performSpatialAnalysis_then)

Gp_handleGenerate ==
    /\ st.currentStep = 2 /\ st.egrnData # NULL /\ st.spatialData # "null"
    /\ Call("gp", "Gp.handleGenerate",
            [NoBody EXCEPT !.application = st.applicationData, !.egrn = st.egrnData,
                           !.spatial = st.spatialData])

\* a response without data.filename throws inside the try
Gp_handleGenerate_then(s, r, resp) ==
    IF resp.ok /\ resp.data # NULL
    THEN [s EXCEPT !.generatedFile = resp.data, !.currentStep = 3, !.loading = FALSE,
                   !.saves = 0]
    ELSE [s EXCEPT !.loading = FALSE]

Gp_handleGenerate_done ==
    Await("Gp.handleGenerate", 0..MaxFile, Gp_handleGenerate_then)

Gp_handleDownload ==
    /\ st.currentStep = 3
    /\ st.saves < MaxSave
    /\ IF st.generatedFile = NULL
       THEN Local("gp", "Gp.handleDownload", st)
       ELSE Call("gp", "Gp.handleDownload", NoBody)

\* gradplanApi.download clicks the link once the file arrived
Gp_handleDownload_then(s, r, resp) ==
    IF resp.ok
    THEN [s EXCEPT !.saves = @ + 1, !.loading = FALSE]
    ELSE [s EXCEPT !.loading = FALSE]

Gp_handleDownload_done ==
    Await("Gp.handleDownload", {1}, Gp_handleDownload_then)

Gp_handleReset_state(s) ==
    [s EXCEPT !.currentStep = 0, !.applicationData = NULL, !.egrnData = NULL,
              !.spatialData = "null", !.generatedFile = NULL, !.applicationMode = "file",
              !.saves = 0]

Gp_handleReset ==
    /\ st.currentStep = 3
    /\ Local("gp", "Gp.handleReset", Gp_handleReset_state(st))

GpNext ==
    \/ \E m \in {"file", "manual"} : Gp_setApplicationMode(m)
    \/ \E f \in Files : Gp_handleApplicationFile(f)
    \/ Gp_handleApplicationFile_done
    \/ \E v \in ManualValues : Gp_handleManualApplication(v)
    \/ \E f \in Files : Gp_handleEgrnFile(f)
    \/ Gp_handleEgrnFile_done
    \/ Gp_performSpatialAnalysis_done
    \/ Gp_handleGenerate
    \/ Gp_handleGenerate_done
    \/ Gp_handleDownload
    \/ Gp_handleDownload_done
    \/ Gp_handleReset

\* ================================================================ KaitenFlow
Kaiten_handleFileUpload(file) ==
    /\ st.currentStep = 0
    /\ Call("kaiten", "Kaiten.handleFileUpload", [NoBody EXCEPT !.file = file])

Kaiten_handleFileUpload_then(s, r, resp) ==
    IF resp.ok
    THEN [s EXCEPT !.parsedData = resp.data, !.currentStep = 1, !.loading = FALSE]
    ELSE [s EXCEPT !.loading = FALSE]

\* the answer may come without the parsed application: response.data.data is
\* stored as it is
Kaiten_handleFileUpload_done ==
    Await("Kaiten.handleFileUpload", {NULL} \cup Apps, Kaiten_handleFileUpload_then)

Kaiten_handleCreateTask ==
    /\ st.currentStep = 1 /\ st.parsedData # NULL
    /\ Call("kaiten", "Kaiten.handleCreateTask", [NoBody EXCEPT !.application = st.parsedData])

Kaiten_handleCreateTask_then(s, r, resp) ==
    IF resp.ok
    THEN [s EXCEPT !.cardResult = resp.data, !.currentStep = 2, !.loading = FALSE]
    ELSE [s EXCEPT !.loading = FALSE]

Kaiten_handleCreateTask_done ==
    Await("Kaiten.handleCreateTask", {1}, Kaiten_handleCreateTask_then)

Kaiten_handleReset_state(s) ==
    [s EXCEPT !.currentStep = 0, !.parsedData = NULL, !.cardResult = NULL]

Kaiten_handleReset ==
    /\ st.currentStep = 2 /\ st.cardResult # NULL
    /\ Local("kaiten", "Kaiten.handleReset", Kaiten_handleReset_state(st))

KaitenNext ==
    \/ \E f \in Files : Kaiten_handleFileUpload(f)
    \/ Kaiten_handleFileUpload_done
    \/ Kaiten_handleCreateTask
    \/ Kaiten_handleCreateTask_done
    \/ Kaiten_handleReset

\* ================================================================ MidMifFlow
\* setLoading(true); setUploadedFile(file) before the preview call
MidMif_handleFileUpload(file) ==
    /\ wizard = "midmif"
    /\ st.currentStep = 0
    /\ Send("MidMif.handleFileUpload", [NoBody EXCEPT !.file = file])
    /\ st' = [st EXCEPT !.loading = TRUE, !.uploadedFile = file]
    /\ last' = Event("MidMif.handleFileUpload", "call")
    /\ shown' = NoMessage
    /\ OthersUnchanged

MidMif_handleFileUpload_then(s, r, resp) ==
    IF resp.ok
    THEN [s EXCEPT !.previewData = resp.data, !.currentStep = 1, !.loading = FALSE]
    ELSE [s EXCEPT !.uploadedFile = NoFile, !.loading = FALSE]

\* the answer may come without a body: response.data is stored as it is
MidMif_handleFileUpload_done ==
    Await("MidMif.handleFileUpload", {NULL} \cup Parcels, MidMif_handleFileUpload_then)

MidMif_handleGenerate ==
    /\ st.currentStep = 1 /\ st.previewData # NULL
    /\ IF st.uploadedFile = NoFile
       THEN Local("midmif", "MidMif.handleGenerate", st)
       ELSE Call("midmif", "MidMif.handleGenerate", [NoBody EXCEPT !.file = st.uploadedFile])

\* variant of the generate continuation that drops the uploaded file on failure
MidMif_handleGenerate_then_dropsFile(s, r, resp) ==
    IF resp.ok
    THEN [s EXCEPT !.downloadReady = TRUE, !.currentStep = 2, !.loading = FALSE,
                   !.saves = 1]
    ELSE [s EXCEPT !.uploadedFile = NoFile, !.loading = FALSE]

MidMif_handleGenerate_then(s, r, resp) ==
    IF resp.ok
    THEN [s EXCEPT !.downloadReady = TRUE, !.currentStep = 2, !.loading = FALSE,
                   !.saves = 1]
    ELSE [s EXCEPT !.loading = FALSE]

MidMif_handleGenerate_done ==
    Await("MidMif.handleGenerate", {1}, MidMif_handleGenerate_then)

MidMif_handleReset_state(s) ==
    [s EXCEPT !.currentStep = 0, !.uploadedFile = NoFile, !.previewData = NULL,
              !.downloadReady = FALSE, !.saves = 0]

MidMif_handleReset ==
    /\ st.currentStep = 2 /\ st.downloadReady
    /\ Local("midmif", "MidMif.handleReset", MidMif_handleReset_state(st))

MidMifNext ==
    \/ \E f \in Files : MidMif_handleFileUpload(f)
    \/ MidMif_handleFileUpload_done
    \/ MidMif_handleGenerate
    \/ MidMif_handleGenerate_done
    \/ MidMif_handleReset

\* ================================================================ WorkspaceFlow
\* local only: a name not ending in .xml is refused, otherwise the file is kept
Workspace_handleEgrnUpload(file) ==
    /\ st.currentStep = 0
    /\ Local("workspace", "Workspace.handleEgrnUpload",
             IF file.ext # "xml" THEN st ELSE [st EXCEPT !.egrnFile = file])

Workspace_handleRemoveEgrn ==
    /\ st.currentStep = 0 /\ st.egrnFile # NoFile
    /\ Local("workspace", "Workspace.handleRemoveEgrn", [st EXCEPT !.egrnFile = NoFile])

Workspace_handleNextStep ==
    /\ st.currentStep = 0 /\ st.egrnFile # NoFile
    /\ Local("workspace", "Workspace.handleNextStep", [st EXCEPT !.currentStep = 1])

\* the step-1 "Назад" button: onClick={() => setCurrentStep(0)}
Workspace_back ==
    /\ st.currentStep = 1
    /\ Local("workspace", "Workspace.back", [st EXCEPT !.currentStep = 0])

Workspace_handleGenerate ==
    /\ st.currentStep = 1
    /\ Call("workspace", "Workspace.handleGenerate", [NoBody EXCEPT !.file = st.egrnFile])

Workspace_handleGenerate_then(s, r, resp) ==
    IF resp.ok
    THEN [s EXCEPT !.generatedFileName = resp.data, !.currentStep = 2, !.loading = FALSE,
                   !.saves = 1]
    ELSE [s EXCEPT !.loading = FALSE]

Workspace_handleGenerate_done ==
    Await("Workspace.handleGenerate", 1..MaxFile, Workspace_handleGenerate_then)

Workspace_handleReset_state(s) ==
    [s EXCEPT !.currentStep = 0, !.egrnFile = NoFile, !.generatedFileName = NULL,
              !.saves = 0]

Workspace_handleReset ==
    /\ st.currentStep = 2 /\ st.generatedFileName # NULL
    /\ Local("workspace", "Workspace.handleReset", Workspace_handleReset_state(st))

WorkspaceNext ==
    \/ \E f \in Files : Workspace_handleEgrnUpload(f)
    \/ Workspace_handleRemoveEgrn
    \/ Workspace_handleNextStep
    \/ Workspace_back
    \/ Workspace_handleGenerate
    \/ Workspace_handleGenerate_done
    \/ Workspace_handleReset

\* ================================================================ RefusalsTable
\* The refusal journal exists in two variants: variant 1 warns about the
\* chosen application and asks before saving, variant 2 saves directly.
Variants == {1, 2}
Records == 1..MaxRecord

\* what the server holds when the journal is opened: one application per refusal
ServerRows == {f \in [Records -> Apps] : \A r1, r2 \in Records : f[r1] = f[r2] => r1 = r2}

NoValues == [application_id |-> NULL]

JournalInit ==
    [ variant |-> NULL, applications |-> {}, data |-> << >>, selectedRecord |-> NULL,
      isEditing |-> FALSE, applicationWarning |-> "null", viewModalVisible |-> FALSE,
      form |-> NoValues, confirm |-> NoValues, detail |-> NoValues, last |-> "none" ]

Journal(j, h) ==
    /\ jr' = [j EXCEPT !.last = h]
    /\ UNCHANGED <<wizVars, dbVars, authVars, listVars, ed>>

ModalOpen == jr.variant # NULL /\ jr.viewModalVisible /\ jr.confirm = NoValues

\* the component mounts; its effect requests the rows and the applications
RefusalsTable_mount(v, rs) ==
    /\ jr.variant = NULL
    /\ rows' = rs
    /\ Journal([jr EXCEPT !.variant = v], "mount")
    /\ UNCHANGED puts

RefusalsTable_fetchData_done(ok) ==
    /\ jr.variant # NULL
    /\ Journal(IF ok THEN [jr EXCEPT !.data = rows] ELSE jr, "fetchData")
    /\ UNCHANGED <<puts, rows>>

RefusalsTable_fetchApplications_done(ok) ==
    /\ jr.variant # NULL
    /\ Journal(IF ok THEN [jr EXCEPT !.applications = Apps] ELSE jr, "fetchApplications")
    /\ UNCHANGED <<puts, rows>>

RefusalsTable_handleView(record) ==
    /\ jr.variant # NULL /\ ~jr.viewModalVisible
    /\ record \in DOMAIN jr.data
    /\ Journal([jr EXCEPT !.selectedRecord = record,
                          !.detail = [application_id |-> jr.data[record]],
                          !.form = [application_id |-> jr.data[record]],
                          !.isEditing = FALSE,
                          !.applicationWarning = "null",
                          !.viewModalVisible = TRUE], "handleView")
    /\ UNCHANGED <<puts, rows>>

RefusalsTable_handleEdit ==
    /\ ModalOpen /\ ~jr.isEditing
    /\ Journal([jr EXCEPT !.isEditing = TRUE], "handleEdit")
    /\ UNCHANGED <<puts, rows>>

\* the warning handleApplicationChange computes from the chosen application
RefusalsTable_warning(status) ==
    IF status = "refused" THEN "has_refusal"
    ELSE IF status = "approved" THEN "has_gp"
    ELSE "null"

\* the operator picks an application in the select; only variant 1 has an
\* onChange handler
RefusalsTable_handleApplicationChange(applicationId) ==
    /\ ModalOpen /\ jr.isEditing
    /\ applicationId \in jr.applications
    /\ Journal([jr EXCEPT !.form = [application_id |-> applicationId],
                          !.applicationWarning =
                              IF jr.variant = 1
                              THEN RefusalsTable_warning(AppStatus(applicationId))
                              ELSE @], "handleApplicationChange")
    /\ UNCHANGED <<puts, rows>>

\* axios.put(`/api/gp/refusals/${selectedRecord.id}`, values)
Put(values, confirmed) ==
    [ id |-> jr.selectedRecord, application_id |-> values.application_id,
      relink |-> values.application_id # jr.data[jr.selectedRecord],
      confirmed |-> confirmed ]

SendPut(values, confirmed) ==
    /\ Put(values, confirmed) \notin puts
    /\ Cardinality(puts) < MaxPuts
    /\ puts' = puts \cup {Put(values, confirmed)}

RefusalsTable_handleSave ==
    /\ ModalOpen /\ jr.isEditing
    /\ IF jr.variant = 1 /\ jr.applicationWarning # "null"
       THEN /\ Journal([jr EXCEPT !.confirm = jr.form], "handleSave")
            /\ UNCHANGED puts
       ELSE /\ SendPut(jr.form, FALSE)
            /\ Journal(jr, "handleSave")
    /\ UNCHANGED rows

\* Modal.confirm of variant 1: onOk saves, cancelling sends nothing
RefusalsTable_confirm_onOk ==
    /\ jr.confirm # NoValues
    /\ SendPut(jr.confirm, TRUE)
    /\ Journal([jr EXCEPT !.confirm = NoValues], "confirm.onOk")
    /\ UNCHANGED rows

RefusalsTable_confirm_onCancel ==
    /\ jr.confirm # NoValues
    /\ Journal([jr EXCEPT !.confirm = NoValues], "confirm.onCancel")
    /\ UNCHANGED <<puts, rows>>

\* ix_refusals_application_id as the PUT sees it
PutAccepted(p) ==
    \A r \in DOMAIN rows : r # p.id => rows[r] # p.application_id

\* variant of the continuation below whose catch leaves edit mode
RefusalsTable_saveRefusal_then_leavesEditMode(j, p, ok, refreshed, again) ==
    IF ~ok THEN [j EXCEPT !.isEditing = FALSE]
    ELSE IF j.variant = 1
    THEN [j EXCEPT !.data = IF refreshed THEN [rows EXCEPT ![p.id] = p.application_id] ELSE @,
                   !.selectedRecord = IF again THEN p.id ELSE @,
                   !.detail = IF again THEN [application_id |-> p.application_id] ELSE @,
                   !.isEditing = IF again THEN FALSE ELSE @,
                   !.applicationWarning = IF again THEN "null" ELSE @]
    ELSE [j EXCEPT !.isEditing = FALSE, !.viewModalVisible = FALSE,
                   !.data = IF refreshed THEN [rows EXCEPT ![p.id] = p.application_id] ELSE @]

\* variant of the continuation below whose second GET does not replace the
\* record of the detail view
RefusalsTable_saveRefusal_then_keepsRecord(j, p, ok, refreshed, again) ==
    IF ~ok THEN j
    ELSE IF j.variant = 1
    THEN [j EXCEPT !.data = IF refreshed THEN [rows EXCEPT ![p.id] = p.application_id] ELSE @,
                   !.isEditing = IF again THEN FALSE ELSE @,
                   !.applicationWarning = IF again THEN "null" ELSE @]
    ELSE [j EXCEPT !.isEditing = FALSE, !.viewModalVisible = FALSE,
                   !.data = IF refreshed THEN [rows EXCEPT ![p.id] = p.application_id] ELSE @]

\* the continuation of the PUT. Variant 1 is saveRefusal: fetchData, which
\* swallows its own failure (refreshed), then a second GET of the page (again)
\* whose record of the id saved replaces selectedRecord before edit mode is
\* left; when that GET fails the catch leaves the view as it was. Variant 2 is
\* the rest of handleSave: close the modal, fetchData
RefusalsTable_saveRefusal_then(j, p, ok, refreshed, again) ==
    IF ~ok THEN j
    ELSE IF j.variant = 1
    THEN [j EXCEPT !.data = IF refreshed THEN [rows EXCEPT ![p.id] = p.application_id] ELSE @,
                   !.selectedRecord = IF again THEN p.id ELSE @,
                   !.detail = IF again THEN [application_id |-> p.application_id] ELSE @,
                   !.isEditing = IF again THEN FALSE ELSE @,
                   !.applicationWarning = IF again THEN "null" ELSE @]
    ELSE [j EXCEPT !.isEditing = FALSE, !.viewModalVisible = FALSE,
                   !.data = IF refreshed THEN [rows EXCEPT ![p.id] = p.application_id] ELSE @]

\* what the continuation reports: saved and shown again, saved with a refresh
\* that failed, or not saved
RefusalsTable_saveRefusal_outcome(j, ok, refreshed, again) ==
    IF ~ok THEN "saveRefusal failed"
    ELSE IF refreshed /\ (j.variant = 1 => again) THEN "saveRefusal"
    ELSE "saveRefusal stale"

RefusalsTable_saveRefusal_done ==
    \E p \in puts, ok \in BOOLEAN, refreshed \in BOOLEAN, again \in BOOLEAN :
        /\ ok => PutAccepted(p)
        /\ puts' = puts \ {p}
        /\ rows' = IF ok THEN [rows EXCEPT ![p.id] = p.application_id] ELSE rows
        /\ Journal(RefusalsTable_saveRefusal_then(jr, p, ok, refreshed, again),
                   RefusalsTable_saveRefusal_outcome(jr, ok, refreshed, again))

\* variant 2: the cancel button of edit mode
RefusalsTable_handleCancel ==
    /\ ModalOpen /\ jr.isEditing /\ jr.variant = 2
    /\ Journal([jr EXCEPT !.isEditing = FALSE,
                          !.form = [application_id |-> jr.data[jr.selectedRecord]]],
               "handleCancel")
    /\ UNCHANGED <<puts, rows>>

\* closing the detail modal
RefusalsTable_close ==
    /\ ModalOpen
    /\ Journal([jr EXCEPT !.viewModalVisible = FALSE, !.isEditing = FALSE,
                          !.applicationWarning = "null"], "close")
    /\ UNCHANGED <<puts, rows>>

NextJournal ==
    \/ \E v \in Variants, rs \in ServerRows : RefusalsTable_mount(v, rs)
    \/ \E ok \in BOOLEAN : RefusalsTable_fetchData_done(ok)
    \/ \E ok \in BOOLEAN : RefusalsTable_fetchApplications_done(ok)
    \/ \E record \in Records : RefusalsTable_handleView(record)
    \/ RefusalsTable_handleEdit
    \/ \E a \in Apps : RefusalsTable_handleApplicationChange(a)
    \/ RefusalsTable_handleSave
    \/ RefusalsTable_confirm_onOk
    \/ RefusalsTable_confirm_onCancel
    \/ RefusalsTable_saveRefusal_done
    \/ RefusalsTable_handleCancel
    \/ RefusalsTable_close

\* ================================================================ outcome tables
\* public.gp, public.refusals and public.tu_requests of the schema, with the
\* columns its constraints mention; rso_type is "none" outside tu_requests
\* ids of the two rows public.applications starts with
ApplicationIds == {1, 2}

RsoTypes == {"vodokanal", "gaz", "teplo"}

Tables == {"gp", "refusals", "tu_requests"}

Table(name) ==
    IF name = "gp" THEN gp ELSE IF name = "refusals" THEN refusals ELSE tu_requests

OutcomeRows ==
    [ id : 1..MaxRow, application_id : ApplicationIds, rso_type : RsoTypes \cup {"none"},
      out_year : 1..MaxYear, out_number : 1..MaxOutNumber ]

\* variant of the constraint below that is not enforced
uq_year_number_not_enforced(table, row) ==
    TRUE

\* UNIQUE (out_year, out_number): uq_gp_year_number, uq_refusal_year_number,
\* uq_tu_year_number
uq_year_number(table, row) ==
    \A r \in table :
        r.id # row.id => <<r.out_year, r.out_number>> # <<row.out_year, row.out_number>>

\* variant of the index below that is not unique
ix_application_id_not_unique(table, row) ==
    TRUE

\* CREATE UNIQUE INDEX ix_gp_application_id / ix_refusals_application_id
ix_application_id(table, row) ==
    \A r \in table : r.id # row.id => r.application_id # row.application_id

\* UNIQUE (application_id, rso_type): uq_tu_application_rso
uq_tu_application_rso(table, row) ==
    \A r \in table :
        r.id # row.id =>
            <<r.application_id, r.rso_type>> # <<row.application_id, row.rso_type>>

\* FOREIGN KEY (application_id) REFERENCES applications(id)
application_id_fkey(row) ==
    row.application_id \in applications

\* the constraint a row violates in the named table, "none" when it fits
Violated(name, row) ==
    IF ~application_id_fkey(row) THEN "application_id_fkey"
    ELSE IF ~uq_year_number(Table(name), row) THEN "uq_year_number"
    ELSE IF name = "tu_requests"
    THEN IF ~uq_tu_application_rso(Table(name), row) THEN "uq_tu_application_rso" ELSE "none"
    ELSE IF ~ix_application_id(Table(name), row) THEN "ix_application_id" ELSE "none"

Accepts(name, row) ==
    Violated(name, row) = "none"

\* what the client shows when its request was answered: saveRefusal reports
\* success after the PUT and the detail of the rejection otherwise
RefusalsTable_saveRefusal_message(ok) ==
    IF ok THEN "success" ELSE "error"

\* TuFlow.handleGenerate likewise
Tu_handleGenerate_message(ok) ==
    IF ok THEN "success" ELSE "error"

\* the step TuFlow is at once its commit was answered, having sent it from
\* the check step
Tu_handleGenerate_step(ok) ==
    Tu_handleGenerate_then([InitState EXCEPT !.currentStep = 3, !.loading = TRUE],
                           Request("Tu.handleGenerate", NoBody),
                           [ok |-> ok, data |-> IF ok THEN 1 ELSE NULL, detail |-> ~ok]).currentStep

\* the answer to the last statement: the violated constraint, and the message
\* and step of the client that sent it (journal PUT, TU commit; step 0 for
\* the journal, which has none)
Reply(stmt, name, violated) ==
    [ violated |-> violated,
      message |-> IF stmt = "update" /\ name = "refusals"
                  THEN RefusalsTable_saveRefusal_message(violated = "none")
                  ELSE IF stmt = "insert" /\ name = "tu_requests"
                  THEN Tu_handleGenerate_message(violated = "none")
                  ELSE "none",
      step |-> IF stmt = "insert" /\ name = "tu_requests"
               THEN Tu_handleGenerate_step(violated = "none")
               ELSE 0 ]

NoReply == [violated |-> "none", message |-> "none", step |-> 0]

\* the named table becomes t
Db(name, t, s, rep) ==
    /\ gp' = IF name = "gp" THEN t ELSE gp
    /\ refusals' = IF name = "refusals" THEN t ELSE refusals
    /\ tu_requests' = IF name = "tu_requests" THEN t ELSE tu_requests
    /\ seq' = s
    /\ reply' = rep
    /\ UNCHANGED <<applications, wizVars, jrnVars, authVars, listVars, ed>>

\* variant of the insert below that replaces the row it conflicts with
Insert_upsert(name, app, rso, year, number) ==
    /\ seq.gp + seq.refusals + seq.tu_requests < MaxRow
    /\ LET row == [id |-> seq[name] + 1, application_id |-> app, rso_type |-> rso,
                   out_year |-> year, out_number |-> number]
           kept == {r \in Table(name) : <<r.application_id, r.rso_type>> # <<app, rso>>}
       IN Db(name,
             IF Accepts(name, row) THEN Table(name) \cup {row}
             ELSE IF Violated(name, row) = "uq_tu_application_rso" THEN kept \cup {row}
             ELSE Table(name),
             [seq EXCEPT ![name] = @ + 1],
             Reply("insert", name, Violated(name, row)))

\* INSERT: id defaults to nextval of the table's sequence, which advances
\* whether or not the row is accepted
Insert(name, app, rso, year, number) ==
    /\ seq.gp + seq.refusals + seq.tu_requests < MaxRow
    /\ LET row == [id |-> seq[name] + 1, application_id |-> app, rso_type |-> rso,
                   out_year |-> year, out_number |-> number]
       IN Db(name,
             IF Accepts(name, row) THEN Table(name) \cup {row} ELSE Table(name),
             [seq EXCEPT ![name] = @ + 1],
             Reply("insert", name, Violated(name, row)))

gp_insert(app, year, number) ==
    Insert("gp", app, "none", year, number)

refusals_insert(app, year, number) ==
    Insert("refusals", app, "none", year, number)

tu_requests_insert(app, rso, year, number) ==
    Insert("tu_requests", app, rso, year, number)

\* UPDATE ... SET ... WHERE id = old.id, the row becoming row
Update(name, old, row) ==
    /\ old \in Table(name)
    /\ row # old
    /\ Db(name,
          IF Accepts(name, row) THEN (Table(name) \ {old}) \cup {row} ELSE Table(name),
          seq,
          Reply("update", name, Violated(name, row)))

\* the row is linked to another application
Relink(name, old, app) ==
    Update(name, old, [old EXCEPT !.application_id = app])

\* the row gets another registration number
Renumber(name, old, year, number) ==
    Update(name, old, [old EXCEPT !.out_year = year, !.out_number = number])

gp_update(old, app) ==
    Relink("gp", old, app)

gp_update_number(old, year, number) ==
    Renumber("gp", old, year, number)

refusals_update(old, app) ==
    Relink("refusals", old, app)

refusals_update_number(old, year, number) ==
    Renumber("refusals", old, year, number)

tu_requests_update(old, app) ==
    Relink("tu_requests", old, app)

tu_requests_update_number(old, year, number) ==
    Renumber("tu_requests", old, year, number)

\* DELETE ... WHERE id = old.id
Delete(name, old) ==
    /\ old \in Table(name)
    /\ Db(name, Table(name) \ {old}, seq, Reply("delete", name, "none"))

gp_delete(old) ==
    Delete("gp", old)

refusals_delete(old) ==
    Delete("refusals", old)

tu_requests_delete(old) ==
    Delete("tu_requests", old)

\* variant of the cascade below that leaves the children in place
Cascade_keepsChildren(table, app) ==
    table

\* the rows ON DELETE CASCADE leaves when application app is deleted
Cascade(table, app) ==
    {r \in table : r.application_id # app}

\* DELETE FROM applications WHERE id = app
applications_delete(app) ==
    /\ app \in applications
    /\ applications' = applications \ {app}
    /\ gp' = Cascade(gp, app)
    /\ refusals' = Cascade(refusals, app)
    /\ tu_requests' = Cascade(tu_requests, app)
    /\ reply' = Reply("delete", "applications", "none")
    /\ UNCHANGED <<seq, wizVars, jrnVars, authVars, listVars, ed>>

NextDb ==
    \/ \E app \in ApplicationIds, y \in 1..MaxYear, n \in 1..MaxOutNumber : gp_insert(app, y, n)
    \/ \E app \in ApplicationIds, y \in 1..MaxYear, n \in 1..MaxOutNumber : refusals_insert(app, y, n)
    \/ \E app \in ApplicationIds, rso \in RsoTypes, y \in 1..MaxYear, n \in 1..MaxOutNumber :
           tu_requests_insert(app, rso, y, n)
    \/ \E old \in gp, app \in ApplicationIds : gp_update(old, app)
    \/ \E old \in refusals, app \in ApplicationIds : refusals_update(old, app)
    \/ \E old \in tu_requests, app \in ApplicationIds : tu_requests_update(old, app)
    \/ \E old \in gp, y \in 1..MaxYear, n \in 1..MaxOutNumber : gp_update_number(old, y, n)
    \/ \E old \in refusals, y \in 1..MaxYear, n \in 1..MaxOutNumber :
           refusals_update_number(old, y, n)
    \/ \E old \in tu_requests, y \in 1..MaxYear, n \in 1..MaxOutNumber :
           tu_requests_update_number(old, y, n)
    \/ \E old \in gp : gp_delete(old)
    \/ \E old \in refusals : refusals_delete(old)
    \/ \E old \in tu_requests : tu_requests_delete(old)
    \/ \E app \in ApplicationIds : applications_delete(app)

\* ================================================================ journal lists
\* ApplicationsTable (Home.jsx), RefusalsTable in its page/page_size variant,
\* RefusalsTable in its skip/limit variant ("RefusalsTable2"), TuRequestsTable
\* and GpTable: what each sends to list and to export, and what it keeps of
\* the answer
Components == {"ApplicationsTable", "RefusalsTable", "RefusalsTable2", "TuRequestsTable", "GpTable"}

\* the years the Select of a journal offers
Years == {2024, 2025, 2026}

\* new Date().getFullYear()
ThisYear == 2025

\* the page sizes of the Table's size changer the model uses; 20 is the default
PageSizes == {10, 20}

\* useState({ current: 1, pageSize: 20, total: 0 })
InitPagination == [current |-> 1, pageSize |-> 20, total |-> 0]

\* the list request issued last: what it asked for and how it ended
NoLatest == [status |-> "none", page |-> 0, pageSize |-> 0, year |-> 0]

ListInit ==
    [ component |-> "none", pagination |-> InitPagination, year |-> ThisYear,
      data |-> {}, loading |-> FALSE, latest |-> NoLatest, last |-> "none" ]

\* the query string of fetchData in component c for page and pageSize
fetchData_params(c, page, pageSize, year) ==
    IF c = "RefusalsTable" THEN [page |-> page, page_size |-> pageSize]
    ELSE IF c = "ApplicationsTable" THEN [skip |-> (page - 1) * pageSize, limit |-> pageSize]
    ELSE [skip |-> (page - 1) * pageSize, limit |-> pageSize, year |-> year]

\* the query string of handleExport / exportToExcel in component c
exportToExcel_params(c, year) ==
    IF c = "RefusalsTable" THEN [responseType |-> "blob"]
    ELSE [responseType |-> "blob", year |-> year]

Get(kind, page, pageSize, params) ==
    [kind |-> kind, page |-> page, pageSize |-> pageSize, params |-> params]

List(l, g, c, h) ==
    /\ lst' = [l EXCEPT !.last = h]
    /\ gets' = g
    /\ committed' = c
    /\ UNCHANGED <<wizVars, jrnVars, dbVars, authVars, ed>>

\* fetchData(page, pageSize): GpTable asks nothing and shows an empty table
fetchData(l, page, pageSize) ==
    IF l.component = "GpTable"
    THEN List([l EXCEPT !.data = {},
                        !.pagination = [current |-> page, pageSize |-> pageSize, total |-> 0]],
              gets, committed, "fetchData")
    ELSE /\ Len(gets) < MaxGets
         /\ List([l EXCEPT !.loading = TRUE,
                           !.latest = [status |-> "pending", page |-> page,
                                       pageSize |-> pageSize, year |-> l.year]],
                 Append(gets, Get("list", page, pageSize,
                                  fetchData_params(l.component, page, pageSize, l.year))),
                 committed, "fetchData")

\* the journal is routed to and its effect runs fetchData()
Table_mount(c) ==
    /\ lst.component = "none"
    /\ fetchData([lst EXCEPT !.component = c], 1, 20)

\* the reload button beside the filters
Table_reload ==
    /\ lst.component # "none"
    /\ fetchData(lst, lst.pagination.current, lst.pagination.pageSize)

\* the Table's onChange: the page/page_size variant stores the new pagination
\* and its effect fetches with it, the others call fetchData with it; the
\* Table takes no input under its loading spinner
Table_onChange(page, pageSize) ==
    /\ lst.component # "none"
    /\ ~lst.loading
    /\ IF lst.component = "RefusalsTable"
       THEN /\ <<page, pageSize>> # <<lst.pagination.current, lst.pagination.pageSize>>
            /\ fetchData([lst EXCEPT !.pagination.current = page,
                                     !.pagination.pageSize = pageSize], page, pageSize)
       ELSE fetchData(lst, page, pageSize)

\* the year Select: setFilters, and the effect on [filters] runs fetchData()
Table_setFilters(year) ==
    /\ lst.component \in {"RefusalsTable2", "TuRequestsTable", "GpTable"}
    /\ year # lst.year
    /\ fetchData([lst EXCEPT !.year = year], 1, 20)

\* the export button (GpTable has none)
Table_exportToExcel ==
    /\ lst.component \in {"RefusalsTable", "RefusalsTable2", "TuRequestsTable"}
    /\ Len(gets) < MaxGets
    /\ List(lst, Append(gets, Get("export", 0, 0, exportToExcel_params(lst.component, lst.year))),
            committed, "exportToExcel")

\* the records a list request selects: those of its year if it names one, in
\* the order of their ids, from offset skip and at most limit of them
Server_matching(params) ==
    {r \in committed : "year" \in DOMAIN params => r.year = params.year}

Server_rank(params, r) ==
    Cardinality({q \in Server_matching(params) : q.id <= r.id})

Server_skip(params) ==
    IF "skip" \in DOMAIN params THEN params.skip ELSE (params.page - 1) * params.page_size

Server_limit(params) ==
    IF "limit" \in DOMAIN params THEN params.limit ELSE params.page_size

Server_list(params) ==
    [ items |-> {r \in Server_matching(params) :
                    /\ Server_rank(params, r) > Server_skip(params)
                    /\ Server_rank(params, r) <= Server_skip(params) + Server_limit(params)},
      total |-> Cardinality(Server_matching(params)) ]

\* the continuation of fetchData for request g: the page/page_size variant
\* keeps its pagination and takes the total, the others store page, pageSize
\* and total
fetchData_then(l, g, ok) ==
    IF ~ok THEN [l EXCEPT !.loading = FALSE]
    ELSE IF l.component = "RefusalsTable"
    THEN [l EXCEPT !.data = Server_list(g.params).items,
                   !.pagination.total = Server_list(g.params).total,
                   !.loading = FALSE]
    ELSE [l EXCEPT !.data = Server_list(g.params).items,
                   !.pagination = [current |-> g.page, pageSize |-> g.pageSize,
                                   total |-> Server_list(g.params).total],
                   !.loading = FALSE]

\* gets without its i-th request; requests are kept in the order of issue
Answered(i) == SubSeq(gets, 1, i - 1) \o SubSeq(gets, i + 1, Len(gets))

\* request i is the list request issued last
Newest(i) == \A k \in DOMAIN gets : k > i => gets[k].kind # "list"

\* the responses arrive in any order
fetchData_done ==
    \E i \in DOMAIN gets, ok \in BOOLEAN :
        /\ gets[i].kind = "list"
        /\ List([fetchData_then(lst, gets[i], ok) EXCEPT
                     !.latest.status = IF Newest(i) /\ @ = "pending"
                                       THEN (IF ok THEN "ok" ELSE "fail") ELSE @],
                Answered(i), committed,
                IF ok THEN "fetchData ok" ELSE "fetchData fail")

exportToExcel_done ==
    \E i \in DOMAIN gets :
        /\ gets[i].kind = "export"
        /\ List(lst, Answered(i), committed, "exportToExcel done")

\* a wizard's commit stores a record of the kind the journal lists
Server_commit(year) ==
    /\ lst.component # "none"
    /\ Cardinality(committed) < MaxCommitted
    /\ List(lst, gets, committed \cup {[id |-> Cardinality(committed) + 1, year |-> year]},
            lst.last)

NextLists ==
    \/ \E c \in Components : Table_mount(c)
    \/ \E page \in 1..MaxPage, pageSize \in PageSizes : Table_onChange(page, pageSize)
    \/ Table_reload
    \/ \E year \in Years : Table_setFilters(year)
    \/ Table_exportToExcel
    \/ fetchData_done
    \/ exportToExcel_done
    \/ \E year \in Years : Server_commit(year)

\* ================================================================ refusal editor dates
\* what the editor of the refusal journal sends as out_date and out_year
\* the texts the operator may leave in the out_date input (rule: required)
DateTexts == {"08.01.2025", "08.01.2026", "31.12.2024", "2026-01-08", "08.01.", "08.01.2026 y."}

\* text.split('.')
Split(text) ==
    CASE text = "08.01.2025" -> <<"08", "01", "2025">>
      [] text = "08.01.2026" -> <<"08", "01", "2026">>
      [] text = "31.12.2024" -> <<"31", "12", "2024">>
      [] text = "2026-01-08" -> <<"2026-01-08">>
      [] text = "08.01." -> <<"08", "01", "">>
      [] text = "08.01.2026 y." -> <<"08", "01", "2026 y", "">>

\* a JavaScript number: an integer or NaN
Num(n) == [nan |-> FALSE, value |-> n]
NaN == [nan |-> TRUE, value |-> NULL]

\* parseInt(s): the leading digits of s, NaN without any; parts is the result
\* of split and i the index asked for, undefined beyond its length
parseInt(parts, i) ==
    IF i > Len(parts) THEN NaN
    ELSE CASE parts[i] \in {"2025"} -> Num(2025)
           [] parts[i] \in {"2026", "2026 y"} -> Num(2026)
           [] parts[i] \in {"2024"} -> Num(2024)
           [] parts[i] \in {"2026-01-08"} -> Num(2026)
           [] parts[i] \in {"08"} -> Num(8)
           [] parts[i] \in {"01"} -> Num(1)
           [] parts[i] \in {"31"} -> Num(31)
           [] parts[i] \in {"12"} -> Num(12)
           [] OTHER -> NaN

\* a field of the JSON body: JSON.stringify writes NaN as null and leaves out
\* a key the object does not have
Json(n) == IF n.nan THEN [kind |-> "null", value |-> NULL] ELSE [kind |-> "int", value |-> n.value]
Absent == [kind |-> "absent", value |-> NULL]

\* the refusals the server lists: out_year is the year of out_date
StoredRefusals ==
    { [out_date |-> "08.01.2025", out_year |-> 2025],
      [out_date |-> "08.01.2026", out_year |-> 2026],
      [out_date |-> "31.12.2024", out_year |-> 2024] }

NoRequest == [out_date |-> "none", out_year |-> Absent]

EditorInit ==
    [ variant |-> NULL, record |-> [out_date |-> "none", out_year |-> NULL],
      out_date |-> "none", request |-> NoRequest ]

Editor(e) ==
    /\ ed' = e
    /\ UNCHANGED <<wizVars, jrnVars, dbVars, authVars, listVars>>

\* handleView puts the record's fields into the form
Editor_handleView(v, record) ==
    Editor([ed EXCEPT !.variant = v, !.record = record, !.out_date = record.out_date])

\* the operator types into the out_date input
Editor_out_date_onChange(text) ==
    /\ ed.variant # NULL
    /\ Editor([ed EXCEPT !.out_date = text])

\* the body of the PUT. Variant 1 sends the values validateFields returns,
\* which are those of the form items rendered: out_year has none. Variant 2
\* builds updateData with out_year: parseInt(values.out_date.split('.')[2])
Editor_updateData(v, record, text) ==
    IF v = 1
    THEN [ out_date |-> text, out_year |-> Absent ]
    ELSE [ out_date |-> text, out_year |-> Json(parseInt(Split(text), 3)) ]

Editor_handleSave ==
    /\ ed.variant # NULL
    /\ Editor([ed EXCEPT !.request = Editor_updateData(ed.variant, ed.record, ed.out_date)])

NextEditor ==
    \/ \E v \in Variants, record \in StoredRefusals : Editor_handleView(v, record)
    \/ \E text \in DateTexts : Editor_out_date_onChange(text)
    \/ Editor_handleSave

\* ================================================================ transports
\* Remote calls leave the page through the api instance (with interceptors),
\* through the global axios (journals) or through fetch (WorkspaceFlow).
Transports == {"api", "axios", "fetch"}

Urls(transport) ==
    IF transport = "api" THEN {"/api/parsers/egrn", "/api/gp/refusal/generate"}
    ELSE IF transport = "axios" THEN {"/api/gp/refusals", "/api/gp/tu-requests"}
    ELSE {"/api/gp/workspace/generate"}

HttpStatuses == {200, 401, 500}

\* the request interceptor of the api instance: config.auth is set from the
\* stored credential, when there is one
api_interceptors_request(stored) ==
    stored

\* whether a request carries the credential: the api instance through its
\* interceptor, fetch through the header WorkspaceFlow builds by hand, the
\* global axios not at all
Credential(transport, stored) ==
    IF transport = "api" THEN api_interceptors_request(stored)
    ELSE IF transport = "fetch" THEN TRUE
    ELSE FALSE

\* stored: whether localStorage held a credential when the request left
HttpCall(transport, url, caller, stored) ==
    [ transport |-> transport, url |-> url, caller |-> caller, stored |-> stored,
      credential |-> Credential(transport, stored) ]

NoResponse == [transport |-> "none", url |-> "none", caller |-> "none", status |-> NULL]

Http(a, l, c, g) ==
    /\ auth' = a
    /\ location' = l
    /\ calls' = c
    /\ got' = g
    /\ UNCHANGED <<wizVars, jrnVars, dbVars, listVars, ed>>

\* protected content is on screen
Rendered == location = "/app" /\ isAuthenticated = "true"

\* authApi.checkAuth() as ProtectedRoute's effect sends it
CheckAuth(s) == HttpCall("api", "/api/auth/me", "ProtectedRoute", s.auth)

\* a call whose ProtectedRoute was unmounted meanwhile: its continuation still
\* runs, its setIsAuthenticated has no effect
Unmounted(c) == IF c.caller = "ProtectedRoute" THEN [c EXCEPT !.caller = "ProtectedRoute unmounted"] ELSE c

\* variant of the effect below that asks the server without a credential
ProtectedRoute_checkAuth_alwaysAsks(s) ==
    [s EXCEPT !.location = "/app", !.isAuthenticated = "null", !.check = TRUE]

\* ProtectedRoute mounts and its effect runs: without a stored credential it
\* sets isAuthenticated false, which renders <Navigate to="/login">, with one
\* it sends the check and shows the placeholder
ProtectedRoute_checkAuth(s) ==
    IF s.auth
    THEN [s EXCEPT !.location = "/app", !.isAuthenticated = "null", !.check = TRUE]
    ELSE [s EXCEPT !.location = "/login", !.isAuthenticated = "false"]

\* what a handler or continuation starts from
Page(r) ==
    [ auth |-> auth, location |-> location, isAuthenticated |-> isAuthenticated,
      reload |-> r, check |-> FALSE, unmount |-> FALSE ]

\* a page behind ProtectedRoute sends a call; fetch builds its Authorization
\* header from the stored credential and throws before sending without one
Page_send(transport, url) ==
    /\ Rendered
    /\ BagCardinality(calls) < MaxCalls
    /\ transport = "fetch" => auth
    /\ Http(auth, location, calls (+) SetToBag({HttpCall(transport, url, "page", auth)}), got)
    /\ UNCHANGED isAuthenticated

\* LoginForm.onFinish stores the credential, then asks /api/auth/me
LoginForm_onFinish ==
    /\ location = "/login"
    /\ \A c \in BagToSet(calls) : c.caller # "LoginForm"
    /\ BagCardinality(calls) < MaxCalls
    /\ Http(TRUE, location,
            calls (+) SetToBag({HttpCall("api", "/api/auth/me", "LoginForm", TRUE)}), got)
    /\ UNCHANGED isAuthenticated

\* the logout button of UserHeader and of Home; nothing disables it while the
\* call is outstanding
handleLogout ==
    /\ Rendered
    /\ BagCardinality(calls) < MaxCalls
    /\ Http(auth, location,
            calls (+) SetToBag({HttpCall("api", "/api/auth/logout", "handleLogout", auth)}), got)
    /\ UNCHANGED isAuthenticated

\* a protected address is loaded in the browser: calls of the page before are
\* gone and ProtectedRoute mounts
Browser_open ==
    LET s == ProtectedRoute_checkAuth(Page(TRUE))
    IN /\ Http(s.auth, s.location, IF s.check THEN SetToBag({CheckAuth(s)}) ELSE EmptyBag,
               NoResponse)
       /\ isAuthenticated' = s.isAuthenticated

\* the response interceptor of the api instance
api_interceptors_response(c, status, s) ==
    IF c.transport = "api" /\ status = 401
    THEN [s EXCEPT !.auth = FALSE, !.location = "/login", !.reload = TRUE]
    ELSE [s EXCEPT !.reload = FALSE]

\* the rest of LoginForm.onFinish once checkAuth settled: navigate('/') mounts
\* ProtectedRoute, the catch removes the credential
LoginForm_onFinish_then(c, status, s) ==
    IF c.caller # "LoginForm" THEN s
    ELSE IF status = 200 THEN ProtectedRoute_checkAuth(s)
    ELSE [s EXCEPT !.auth = FALSE]

\* the rest of ProtectedRoute's checkAuth; an unmounted one still removes the
\* credential in its catch
ProtectedRoute_checkAuth_then(c, status, s) ==
    IF c.caller = "ProtectedRoute"
    THEN IF status = 200 THEN [s EXCEPT !.isAuthenticated = "true"]
         ELSE [s EXCEPT !.auth = FALSE, !.isAuthenticated = "false", !.location = "/login"]
    ELSE IF c.caller = "ProtectedRoute unmounted" /\ status # 200
    THEN [s EXCEPT !.auth = FALSE]
    ELSE s

\* variant of the continuation below that logs out only when the server agreed
handleLogout_then_onSuccessOnly(c, status, s) ==
    IF c.caller # "handleLogout" \/ status # 200 THEN s
    ELSE [s EXCEPT !.auth = FALSE, !.location = "/login", !.unmount = TRUE]

\* the finally of handleLogout: removeItem and navigate('/login')
handleLogout_then(c, status, s) ==
    IF c.caller # "handleLogout" THEN s
    ELSE [s EXCEPT !.auth = FALSE, !.location = "/login", !.unmount = TRUE]

\* a response arrives; assigning window.location.href reloads the page, which
\* drops every other call in flight
Http_response ==
    \E c \in BagToSet(calls), status \in HttpStatuses :
        LET s0 == Page(FALSE)
            s1 == api_interceptors_response(c, status, s0)
            s2 == LoginForm_onFinish_then(c, status, s1)
            s3 == ProtectedRoute_checkAuth_then(c, status, s2)
            s4 == handleLogout_then(c, status, s3)
            rest == IF s4.reload THEN EmptyBag
                    ELSE IF s4.unmount THEN BagOfAll(Unmounted, calls (-) SetToBag({c}))
                    ELSE calls (-) SetToBag({c})
        IN /\ Http(s4.auth, s4.location,
                   rest (+) (IF s4.check /\ ~s4.reload THEN SetToBag({CheckAuth(s4)}) ELSE EmptyBag),
                   [transport |-> c.transport, url |-> c.url, caller |-> c.caller,
                    status |-> status])
           /\ isAuthenticated' = s4.isAuthenticated

NextAuth ==
    \/ \E transport \in Transports : \E url \in Urls(transport) : Page_send(transport, url)
    \/ LoginForm_onFinish
    \/ handleLogout
    \/ Browser_open
    \/ Http_response

\* ================================================================ specifications
\* the router mounts the wizard of the visited route
App_route(w) ==
    /\ wizard = "none"
    /\ wizard' = w
    /\ UNCHANGED <<st, inflight, overlaps, last, shown, jrnVars, dbVars, authVars, listVars, ed>>

InitWizard ==
    /\ wizard = "none"
    /\ st = InitState
    /\ inflight = EmptyBag
    /\ overlaps = 0
    /\ last = Event("mount", "local")
    /\ shown = NoMessage

InitJournal == jr = JournalInit /\ puts = {} /\ rows = << >>
InitDb ==
    /\ gp = {} /\ refusals = {} /\ tu_requests = {}
    /\ applications = ApplicationIds
    /\ seq = [gp |-> 0, refusals |-> 0, tu_requests |-> 0]
    /\ reply = NoReply
InitAuth ==
    /\ auth = TRUE /\ location = "/app" /\ calls = EmptyBag /\ got = NoResponse
    /\ isAuthenticated = "true"

InitLists == lst = ListInit /\ gets = << >> /\ committed = {}

InitEditor == ed = EditorInit

Init == InitWizard /\ InitJournal /\ InitDb /\ InitAuth /\ InitLists /\ InitEditor

NextWizard ==
    \/ \E w \in Wizards : App_route(w)
    \/ RefusalNext
    \/ TuNext
    \/ GpNext
    \/ KaitenNext
    \/ MidMifNext
    \/ WorkspaceNext

SpecWizard == Init /\ [][NextWizard]_vars
SpecJournal == Init /\ [][NextJournal]_vars
SpecDb == Init /\ [][NextDb]_vars
SpecAuth == Init /\ [][NextAuth]_vars
SpecLists == Init /\ [][NextLists]_vars
SpecEditor == Init /\ [][NextEditor]_vars

\* ================================================================ wizard claims
\* the statuses the claims call conflicting
Conflicting == {"refused", "gp_issued"}

\* the terminal commit call of each wizard
CommitHandlers ==
    { "Refusal.handleGenerate", "Tu.handleGenerate", "Gp.handleGenerate",
      "Kaiten.handleCreateTask", "MidMif.handleGenerate", "Workspace.handleGenerate" }

ResetHandlers ==
    { "Refusal.handleReset", "Tu.handleReset", "Gp.handleReset",
      "Kaiten.handleReset", "MidMif.handleReset", "Workspace.handleReset" }

\* handlers of steps without a remote call that move the wizard forward
LocalAdvance ==
    { "Refusal.handleConfirmReason", "Tu.handleModeSelect", "Tu.handleManualSubmit",
      "Gp.handleManualApplication", "Workspace.handleNextStep" }

\* the wizard shows its final step with the commit's output
AtFinalStep ==
    \/ wizard = "refusal" /\ st.currentStep = 4 /\ st.generatedFile # NULL
    \/ wizard = "tu" /\ st.currentStep = 4 /\ st.downloadReady
    \/ wizard = "gp" /\ st.currentStep = 3 /\ st.generatedFile # NULL
    \/ wizard = "kaiten" /\ st.currentStep = 2 /\ st.cardResult # NULL
    \/ wizard = "midmif" /\ st.currentStep = 2 /\ st.downloadReady
    \/ wizard = "workspace" /\ st.currentStep = 2 /\ st.generatedFileName # NULL

\* C1 (as claimed): a commit triggered while a commit call of the same wizard
\* is outstanding sends nothing, so at most one commit call is ever in flight.
C1_OneCommitInFlight ==
    \A h \in CommitHandlers : NumPending(h) <= 1

C3_CommitOnlyAfterConflictConfirmed ==
    \A r \in Pending :
        ( /\ r.handler \in {"Refusal.handleGenerate", "Gp.handleGenerate"}
          /\ r.body.application \in Apps
          /\ AppStatus(r.body.application) \in Conflicting )
        => r.confirmed

\* C7 (as claimed): once the final step is shown, currentStep changes only
\* through reset.
C7_FinalStepLeftOnlyByReset ==
    [][ AtFinalStep /\ st'.currentStep # st.currentStep
          => last'.h \in ResetHandlers ]_vars

\* C8: handleReset puts every state cell except loading back to its initial
\* value (currentStep 0, all collected data cleared) and sends no remote call.
C8_ResetClearsEverything ==
    [][ last'.h \in ResetHandlers
          => /\ st' = [InitState EXCEPT !.loading = st.loading]
             /\ inflight' = inflight ]_vars

C8_Witness ==
    /\ last.h \in ResetHandlers
    /\ st.currentStep = 0
    /\ inflight # EmptyBag

\* C9: when the response of a commit call is a failure, the continuation
\* changes nothing but loading: currentStep and all collected data stay.
C9_CommitFailureKeepsData ==
    [][ last'.h \in CommitHandlers /\ last'.ev = "fail"
          => st' = [st EXCEPT !.loading = FALSE] ]_vars

C9_Witness ==
    /\ last = Event("MidMif.handleGenerate", "fail")
    /\ st.currentStep = 1
    /\ st.uploadedFile # NoFile
    /\ st.previewData # NULL

\* ================================================================ journal claims
\* C4 (as claimed): after handleApplicationChange the warning is set exactly
\* when the chosen application's status is refused or gp_issued.
C4_WarningIffConflicting ==
    (jr.variant = 1 /\ jr.last = "handleApplicationChange")
        => ( jr.applicationWarning # "null"
               <=> AppStatus(jr.form.application_id) \in Conflicting )

\* C5 (as claimed): no PUT that re-links a refusal to an application with
\* status refused or gp_issued is sent unless the operator confirmed it.
C5_NoUnconfirmedConflictingPut ==
    \A p \in puts :
        (p.relink /\ AppStatus(p.application_id) \in Conflicting) => p.confirmed

C6_OneOutcomePerApplication ==
    /\ \A t \in {gp, refusals} : \A r1, r2 \in t :
           r1.application_id = r2.application_id => r1 = r2
    /\ \A g \in gp, r \in refusals : g.application_id # r.application_id

\* C6 (amended): no two rows of the same outcome table reference the same
\* application; a gp row and a refusals row may reference the same one.
C6_OneRowPerApplicationPerTable ==
    \A t \in {gp, refusals} : \A r1, r2 \in t :
        r1.application_id = r2.application_id => r1 = r2

C6_Witness ==
    \E g \in gp, r \in refusals : g.application_id = r.application_id

Stored == <<gp, refusals, tu_requests>>

YearNumberUnique(table) ==
    \A r1, r2 \in table :
        <<r1.out_year, r1.out_number>> = <<r2.out_year, r2.out_number>> => r1 = r2

ApplicationRsoUnique(table) ==
    \A r1, r2 \in table :
        <<r1.application_id, r1.rso_type>> = <<r2.application_id, r2.rso_type>> => r1 = r2

Allocated ==
    UNION {{<<name, r.out_year, r.out_number>> : r \in Table(name)} : name \in Tables}

C15_ChildrenReferToExistingApplication ==
    \A r \in gp \cup refusals \cup tu_requests : r.application_id \in applications

\* application 1 was deleted after both tu_requests rows were inserted, and
\* took its row with it
C15_Witness ==
    /\ applications = {2}
    /\ seq.tu_requests = 2
    /\ \E r \in tu_requests : tu_requests = {r} /\ r.id = 2

\* ================================================================ transport claims
\* C10 (as claimed): whenever the response of a remote call has status 401,
\* the stored credential is removed and the page goes to /login.
C10_Every401RemovesCredential ==
    [][ (BagCardinality(calls') < BagCardinality(calls) /\ got'.status = 401)
          => (~auth' /\ location' = "/login") ]_vars

\* C11 (as claimed): every request sent while a credential is stored carries
\* that credential.
C11_EveryRequestCarriesCredential ==
    \A c \in BagToSet(calls) : c.stored => c.credential

\* the upload handlers that send the dropped file to the backend
UploadHandlers ==
    { "Refusal.handleApplicationUpload", "Refusal.handleEgrnUpload",
      "Tu.handleApplicationUpload", "Tu.handleEgrnUpload", "Gp.handleApplicationFile",
      "Gp.handleEgrnFile", "Kaiten.handleFileUpload", "MidMif.handleFileUpload" }

\* C12 (as claimed): no upload call is in flight for a file whose extension
\* is not one its step accepts.
C12_NoCallForUnacceptedExtension ==
    \A r \in Pending :
        r.handler \in UploadHandlers => r.body.file.ext \in Accept(r.handler)

\* the place of a handler's remote call in the order of its wizard's steps
Rank(h) ==
    IF h \in {"Refusal.handleApplicationUpload", "Tu.handleApplicationUpload",
              "Gp.handleApplicationFile", "Kaiten.handleFileUpload",
              "MidMif.handleFileUpload"} THEN 0
    ELSE IF h \in {"Refusal.handleEgrnUpload", "Tu.handleEgrnUpload", "Gp.handleEgrnFile"} THEN 1
    ELSE IF h = "Gp.performSpatialAnalysis" THEN 2
    ELSE IF h = "Gp.handleDownload" THEN 4
    ELSE 3

\* C16 (as claimed): a handler sends its remote call only when no call of an
\* earlier step of the wizard is still outstanding.
C16_NoCallBeforeEarlierStepResolved ==
    [][ \A r \in Pending :
            (last'.ev = "call" /\ inflight' # inflight) => Rank(r.handler) >= Rank(last'.h) ]_vars

\* C17 (as claimed): only a reset or the back button of WorkspaceFlow makes
\* currentStep smaller; no response of a remote call does.
C17_StepDecreasesOnlyByResetOrBack ==
    [][ st'.currentStep < st.currentStep
          => last'.h \in ResetHandlers \cup {"Workspace.back"} ]_vars

\* C18: in RefusalFlow handleReasonSelect leaves currentStep as it is, and
\* currentStep goes from the reason step (2) to the check step (3) only in
\* handleConfirmReason and only with a reason selected.
C18_ReasonStepLeftOnlyByConfirm ==
    [][ wizard = "refusal" =>
          /\ last'.h = "Refusal.handleReasonSelect" => st'.currentStep = st.currentStep
          /\ (st.currentStep = 2 /\ st'.currentStep = 3) =>
                 (last'.h = "Refusal.handleConfirmReason" /\ st.selectedReason # NULL) ]_vars

\* the operator chose a reason and confirmed it
C18_Witness ==
    /\ wizard = "refusal"
    /\ last = Event("Refusal.handleConfirmReason", "local")
    /\ st.currentStep = 3
    /\ st.selectedReason # NULL

\* C19 (as claimed): the document a wizard holds after a successful commit
\* has been saved to disk at most once, whatever the operator does next.
C19_SavedOncePerCommit ==
    st.saves <= 1

\* C20 (as claimed): an answer without the expected body is a failure the
\* handler reports: the uploads of KaitenFlow and MidMifFlow take their
\* success path (success message, next step) only with the body present.
C20_MissingBodyReported ==
    /\ last = Event("Kaiten.handleFileUpload", "ok") => st.parsedData # NULL
    /\ last = Event("MidMif.handleFileUpload", "ok") => st.previewData # NULL

\* C21 (as claimed): when a remote call fails, the message shown is the
\* backend's detail if the answer carried one, and the step's generic message
\* if there was no response.
C21_DetailVerbatimElseGeneric ==
    last.ev = "fail" =>
        /\ shown.got = "detail" => shown.text = "detail"
        /\ shown.got = "no response" => shown.text = "generic"

\* C22: only a handler invoked by the operator adds to the calls outstanding,
\* and it adds one; a continuation never leaves more calls outstanding than it
\* found (the spatial analysis takes the place of the EGRN parse that
\* succeeded), and after a failure the failed call is gone, not sent again.
C22_NoCallWithoutSubmission ==
    [][ /\ last'.ev = "call" => BagCardinality(inflight') = BagCardinality(inflight) + 1
        /\ last'.ev \in {"ok", "local"} => BagCardinality(inflight') <= BagCardinality(inflight)
        /\ last'.ev = "fail" => BagCardinality(inflight') = BagCardinality(inflight) - 1 ]_vars

\* GpFlow's EGRN parse failed and nothing is outstanding
C22_Witness ==
    /\ last = Event("Gp.handleEgrnFile", "fail")
    /\ inflight = EmptyBag

\* ---------------------------------------------------------------- journal list claims

YearScoped == {"RefusalsTable", "RefusalsTable2", "TuRequestsTable"}

\* C23: every list request and every export request of a year-scoped journal
\* (refusals, TU requests) carries the year filter
C23_YearOnEveryRequest ==
    lst.component \in YearScoped => \A i \in DOMAIN gets : "year" \in DOMAIN gets[i].params

\* C24: a list request for page p with page size s sends skip = (p - 1) * s and
\* limit = s, and the step that takes its successful response leaves
\* pagination = {current: p, pageSize: s, total: the server's total}
C24_SkipLimitAndPagination ==
    /\ [](\A i \in DOMAIN gets : gets[i].kind = "list" =>
              /\ {"skip", "limit"} \subseteq DOMAIN gets[i].params
              /\ gets[i].params.skip = (gets[i].page - 1) * gets[i].pageSize
              /\ gets[i].params.limit = gets[i].pageSize)
    /\ [][\A i \in DOMAIN gets :
              (gets[i].kind = "list" /\ gets' = Answered(i) /\ lst'.last = "fetchData ok") =>
                  lst'.pagination = [current |-> gets[i].page, pageSize |-> gets[i].pageSize,
                                     total |-> Server_list(gets[i].params).total]]_vars

\* the committed records the journal mounted lists: those of the year chosen
\* where the journal filters by year, all of them where it does not
Listed(l) ==
    {r \in committed : l.component \in {"RefusalsTable2", "TuRequestsTable", "GpTable"} => r.year = l.year}

\* a step that completes a refresh of the journal: the successful response of
\* its list request, or GpTable's fetchData, which waits for nothing
Refreshed ==
    /\ committed' = committed
    /\ \/ lst'.last = "fetchData ok" /\ gets' # gets
       \/ lst'.component = "GpTable" /\ lst'.last = "fetchData" /\ lst' # lst

\* C29: a refresh of the first page of a journal shows every committed record
\* of its kind and year (fewer records are committed than fit on a page); in
\* particular the plans journal shows a committed plan
C29_CommittedRecordsListed ==
    [][(Refreshed /\ lst'.pagination.current = 1) => lst'.data = Listed(lst')]_vars

\* the request the step just sent
Sent(r) == inflight' = inflight (+) SetToBag({r})

GoBack ==
    /\ NextWizard
    /\ wizard' = wizard
    /\ last'.ev = "local"
    /\ st.currentStep = 1 /\ st'.currentStep = 0

\* C26: when the parse of the application succeeded at step 0, the wizard is at
\* step 1 with the applicant data stored, and going back to step 0 is enabled
C26_ParsedThenBackEnabled ==
    last \in {Event("Gp.handleApplicationFile", "ok"), Event("Refusal.handleApplicationUpload", "ok")} =>
        /\ st.currentStep = 1
        /\ st.applicationData # NULL
        /\ ENABLED GoBack

\* the outputs the steps before step k of wizard w leave in the state
Collected(w, s) ==
    IF w = "refusal"
    THEN /\ s.currentStep >= 1 => s.applicationData # NULL
         /\ s.currentStep >= 2 => s.egrnData # NULL
         /\ s.currentStep >= 3 => s.selectedReason # NULL
         /\ s.currentStep = 4 => s.generatedFile # NULL
    ELSE IF w = "tu"
    THEN /\ s.currentStep >= 1 => s.inputMode # "null"
         /\ s.currentStep >= 2 => IF s.inputMode = "auto" THEN s.applicationData # NULL
                                  ELSE s.manualData # EmptyManual
         /\ s.currentStep >= 3 => s.egrnData # NULL /\ s.finalData # NoFinal
         /\ s.currentStep = 4 => s.downloadReady
    ELSE IF w = "gp"
    THEN /\ s.currentStep >= 1 => s.applicationData # NULL
         /\ s.currentStep >= 2 => s.egrnData # NULL /\ s.spatialData # "null"
         /\ s.currentStep = 3 => s.generatedFile # NULL
    ELSE TRUE

\* C27: a wizard starts at step 0, not loading, with nothing collected, and in
\* every state the outputs of all steps before the current one are present,
\* the commit output included at the final step
C27_StepsBeforeCurrentCollected ==
    /\ last = Event("mount", "local") => st = InitState
    /\ Collected(wizard, st)

\* C30: once every call a wizard started has resolved, on whichever path,
\* loading is false again; GpFlow's EGRN parse hands loading on to the spatial
\* analysis it starts and that one clears it
C30_NotLoadingWhenNothingOutstanding ==
    inflight = EmptyBag => ~st.loading

C30_Witness ==
    /\ last = Event("Gp.performSpatialAnalysis", "fail")
    /\ inflight = EmptyBag
    /\ ~st.loading
    /\ st.egrnData # NULL

\* C31: when the list request issued last has been answered and no other is
\* outstanding, the page shown is the one it asked for and the rows shown are
\* of the year it asked for, in whatever order the responses arrived
C31_LatestRequestDisplayed ==
    (lst.latest.status = "ok" /\ \A i \in DOMAIN gets : gets[i].kind # "list") =>
        /\ lst.pagination.current = lst.latest.page
        /\ lst.pagination.pageSize = lst.latest.pageSize
        /\ lst.component \in {"RefusalsTable2", "TuRequestsTable"} =>
               \A r \in lst.data : r.year = lst.latest.year

\* the step delivers the response of the call of the given caller
Completed(caller) ==
    /\ \E c \in BagToSet(calls) : c.caller = caller
    /\ BagCardinality(calls') <= BagCardinality(calls)
    /\ got'.caller = caller
    /\ got' # got \/ BagCardinality(calls') < BagCardinality(calls)

\* C32: when a login attempt completes, a credential is stored exactly if the
\* auth check succeeded, and a failed attempt stays on /login
C32_CredentialStoredIffCheckSucceeded ==
    [][Completed("LoginForm") =>
           /\ auth' <=> got'.status = 200
           /\ got'.status # 200 => location' = "/login"]_vars

\* C33: ProtectedRoute asks the server only with a stored credential and
\* otherwise redirects to /login; nothing protected is on screen while its
\* check is pending; content appears only by a check that succeeded, and a
\* check that failed removes the credential and redirects
C33_ContentOnlyAfterSuccessfulCheck ==
    /\ [](\A c \in BagToSet(calls) : c.caller = "ProtectedRoute" => c.stored /\ ~Rendered)
    /\ [](isAuthenticated = "false" => location = "/login")
    /\ [][ /\ (Rendered' /\ ~Rendered) => (Completed("ProtectedRoute") /\ got'.status = 200)
           /\ (Completed("ProtectedRoute") /\ got'.status # 200) =>
                  (~auth' /\ location' = "/login" /\ ~Rendered') ]_vars

C33_Witness ==
    /\ got.caller = "ProtectedRoute" /\ got.status = 500
    /\ ~auth /\ location = "/login" /\ isAuthenticated = "false"

\* C34: when the logout call is answered, with whatever status, the stored
\* credential is gone and the page is /login
C34_LogoutRemovesCredentialAndLeaves ==
    [][Completed("handleLogout") => (~auth' /\ location' = "/login")]_vars

C34_Witness ==
    /\ got.caller = "handleLogout" /\ got.status = 500
    /\ ~auth /\ location = "/login"
    /\ calls = EmptyBag

\* the texts of the form DD.MM.YYYY and their year
WellFormed == {"08.01.2025", "08.01.2026", "31.12.2024"}
YearOf(text) ==
    CASE text = "08.01.2025" -> 2025
      [] text = "08.01.2026" -> 2026
      [] text = "31.12.2024" -> 2024

\* C35: every update request of the editor carries an integer out_year, and
\* for a date DD.MM.YYYY it is the year of that date
C35_OutYearIsYearOfOutDate ==
    ed.request # NoRequest =>
        /\ ed.request.out_year.kind = "int"
        /\ ed.request.out_date \in WellFormed =>
               ed.request.out_year.value = YearOf(ed.request.out_date)

\* C37: the payload TuFlow's generate sends takes its application fields from
\* one parsed application in mode auto and from the manual form in mode
\* manual, and a chosen inputMode changes only by reset
C37_PayloadFollowsInputMode ==
    [][ /\ last' = Event("Tu.handleGenerate", "call") =>
               \E r \in BagToSet(inflight') :
                   /\ Sent(r)
                   /\ st.inputMode \in {"auto", "manual"}
                   /\ st.inputMode = "auto" =>
                          /\ r.body.final.app_number \in Apps
                          /\ r.body.final.applicant = r.body.final.app_number
                   /\ st.inputMode = "manual" =>
                          /\ r.body.final.app_number = st.manualData.app_number
                          /\ r.body.final.applicant = st.manualData.applicant
        /\ (st.inputMode # "null" /\ st'.inputMode # st.inputMode) =>
               last' = Event("Tu.handleReset", "local") ]_vars

====
